---- MODULE Spec2Model ----
(***************************************************************************)
(* A model of hivesky.py: a single-shot batch job that reads an RSS feed,  *)
(* drops the entries that are too old or already in history.csv, fetches   *)
(* page metadata for the others, prints or posts each of them and rewrites *)
(* history.csv after every published entry.                                *)
(*                                                                         *)
(* Strings are modelled as sequences of tokens (a "cell"), so that the     *)
(* empty string, strip() and the substring tests on URLs are computed. A   *)
(* URL is the sequence of its path segments: every segment but the last    *)
(* one stands between two slashes.  history.csv is the sequence of its     *)
(* lines, a line being the sequence of its cells; a write that is          *)
(* interrupted leaves a prefix of the lines (line granularity).            *)
(***************************************************************************)
EXTENDS Integers, Sequences, FiniteSets, TLC

\* ---------------------------------------------------------------- bounds
MaxTail == 2
MaxRuns == 2
MaxNames == 4
MaxRecords == 2

\* ------------------------------------------------------------- constants
\* entries[3:] : the number of leading feed entries the loop never visits
Skip == 3
\* "05 Apr 2025 00:00:01 +1300" as seconds since the epoch
START_TIME == 1743764401

\* ------------------------------------------------------------ data model
Guids == { <<"124729">>, <<"124731">> }

UrlRelease == <<"release", "a">>
UrlUnknown == <<"about", "b">>
Urls == {UrlRelease, UrlUnknown}

Times == {START_TIME - 1, START_TIME}

FeedTitle == <<" ", "feed-title", " ">>

Entries ==
    [guid : Guids, link : Urls, published : Times, title : {FeedTitle}]

\* the entries of the unvisited head of the feed: recent, classifiable
HeadEntries ==
    [guid : Guids, link : {UrlRelease}, published : {START_TIME}, title : {FeedTitle}]

\* the head of a feed: the loop never reads it, one entry repeated stands for it
Heads == { [i \in 1..Skip |-> e] : e \in HeadEntries }

SeqsUpTo(S, n) == UNION { [1..k -> S] : k \in 0..n }

Feeds ==
    {<<>>} \cup { h \o t : h \in Heads, t \in SeqsUpTo(Entries, MaxTail) }

\* an environment variable is <<>> when unset and <<value>> when set
Unset == <<>>
Envs ==
    [POST_TO_BLUESKY : {Unset, <<"">>, <<"True">>},
     BROWSERLESS_API_TOKEN : {Unset, <<"token">>},
     BROWSERLESS_URL : {Unset, <<"http">>}]

\* os.environ.get(name, False) used as a condition: False and "" are falsy
EnvTruthy(v) == v # Unset /\ v[1] # ""

\* ------------------------------------------------------- pure functions
Reverse(s) == [i \in 1..Len(s) |-> s[Len(s) + 1 - i]]

RECURSIVE LStrip(_)
LStrip(s) == IF s # <<>> /\ Head(s) = " " THEN LStrip(Tail(s)) ELSE s

\* str.strip()
Strip(s) == Reverse(LStrip(Reverse(LStrip(s))))

\* str.join: the strings of a list with sep between them
RECURSIVE Join(_, _)
Join(sep, list) ==
    IF list = <<>> THEN <<>>
    ELSE IF Len(list) = 1 THEN list[1]
    ELSE list[1] \o sep \o Join(sep, Tail(list))

\* every name followed by a comma, the last one included
format_minister_text_oxford(ministers) ==
    IF Len(ministers) = 0 THEN <<>>
    ELSE IF Len(ministers) = 1 THEN <<" from", " ">> \o ministers[1]
    ELSE IF Len(ministers) = 2 THEN <<" from", " ">> \o Join(<<" and ">>, ministers)
    ELSE <<" from", " ">> \o Join(<<", ">>, SubSeq(ministers, 1, Len(ministers) - 1))
            \o <<", ">> \o <<" and ">> \o ministers[Len(ministers)]

\* format_minister_text: the f-strings are the prefix, a space and the rest
format_minister_text(ministers) ==
    IF Len(ministers) = 0 THEN <<>>
    ELSE IF Len(ministers) = 1 THEN <<" from", " ">> \o ministers[1]
    ELSE IF Len(ministers) = 2 THEN <<" from", " ">> \o Join(<<" and ">>, ministers)
    ELSE <<" from", " ">> \o Join(<<", ">>, SubSeq(ministers, 1, Len(ministers) - 1))
            \o <<" and ">> \o ministers[Len(ministers)]

\* '/seg/' in url
UrlContains(url, seg) == \E i \in 1..(Len(url) - 1) : url[i] = seg

\* the three tests chained with elif: the first match wins
parse_entry_first_match(entry) ==
    LET url == entry.link
        t == IF UrlContains(url, "feature") THEN "FEATURE"
             ELSE IF UrlContains(url, "release") THEN "RELEASE"
             ELSE IF UrlContains(url, "speech") THEN "SPEECH"
             ELSE "None"
    IN  IF t = "None"
        THEN <<>>
        ELSE << [type |-> t, guid |-> entry.guid, url |-> url,
                 title |-> Strip(entry.title)] >>

\* parse_entry: <<>> is None, <<post>> is a Post
parse_entry(entry) ==
    LET url == entry.link
        t1 == IF UrlContains(url, "feature") THEN "FEATURE" ELSE "None"
        t2 == IF UrlContains(url, "release") THEN "RELEASE" ELSE t1
        t3 == IF UrlContains(url, "speech") THEN "SPEECH" ELSE t2
    IN  IF t3 = "None"
        THEN <<>>
        ELSE << [type |-> t3, guid |-> entry.guid, url |-> url,
                 title |-> Strip(entry.title)] >>

\* ------------------------------------------------------------ history.csv
FieldNames == << <<"guid">>, <<"url">> >>

NoFile == [exists |-> FALSE, lines |-> <<>>]

\* csv.DictReader: the first line names the fields of the following ones
FieldOf(fieldnames, row, name) ==
    row[CHOOSE j \in 1..Len(fieldnames) : fieldnames[j] = name]

DictReader(lines) ==
    IF lines = <<>>
    THEN <<>>
    ELSE [i \in 1..(Len(lines) - 1) |->
            [guid |-> FieldOf(lines[1], lines[i + 1], <<"guid">>),
             url  |-> FieldOf(lines[1], lines[i + 1], <<"url">>)]]

load_feed_history(f) == IF f.exists THEN DictReader(f.lines) ELSE <<>>

\* the guids of the history are not collected
retrieve_no_guids(h) == <<>>

retrieve_published_guids(h) == [i \in 1..Len(h) |-> h[i].guid]

\* save_feed_history, line 143: the in-memory list is extended first
HistoryAppend(h, post) == Append(h, [guid |-> post.guid, url |-> post.url])

\* save_feed_history, lines 147-153: the lines a completed write leaves
CsvLines(h) == <<FieldNames>> \o [i \in 1..Len(h) |-> <<h[i].guid, h[i].url>>]

WrittenFile(h) == [exists |-> TRUE, lines |-> CsvLines(h)]

\* open(.., "w") truncates; an interrupted write leaves a proper prefix
PartialFiles(h) ==
    { [exists |-> TRUE, lines |-> SubSeq(CsvLines(h), 1, k)] :
        k \in 0..(Len(CsvLines(h)) - 1) }

InSeq(x, s) == \E i \in 1..Len(s) : s[i] = x

\* the filter of line 197 left out
NeverPublished(entry, gs) == FALSE

\* line 197: entry.guid in guids
AlreadyPublished(entry, gs) == InSeq(entry.guid, gs)

\* the cutoff of line 194 taken as inclusive
TooOldOrAtStart(entry) == entry.published <= START_TIME

\* line 194
TooOld(entry) == entry.published < START_TIME

\* line 200: post.guid is a str and history a list of dicts; a str never
\* equals a dict, so the membership test is false for every history
StrEqualsDict(s, d) == FALSE

GuidInHistory(guid, h) == \E i \in 1..Len(h) : StrEqualsDict(guid, h[i])

\* ------------------------------------------------- fetch_post_metadata
\* an element the page may lack is <<>> (find returns None) or <<content>>
Some(S) == {<<>>} \cup { <<c>> : c \in S }

MinisterLists ==
    { <<>>, << <<"Alice">> >>, << <<" ", "Alice">>, <<"Bob">> >>,
      << <<"Alice">>, <<"Bob", " ">>, <<"Cara">> >> }

Pages ==
    [ogTitle   : Some({ <<>>, <<"og-title">> }),
     h1        : Some({ <<" ">>, <<"heading", " ">> }),
     ogDesc    : Some({ <<>>, <<"og-desc">> }),
     metaDesc  : Some({ <<>>, <<"meta-desc">> }),
     ministers : MinisterLists]

\* requests.post: r.ok and, when ok, the page in r.text
Responses == [ok : {FALSE}, page : {<<>>}] \cup [ok : {TRUE}, page : { <<p>> : p \in Pages }]

Raised == [status |-> "raise", title |-> <<>>, description |-> <<>>, ministers |-> <<>>]

\* status "False": line 79; "raise": an attribute of None is read (lines 86,
\* 88, 91, 93); "ok": the metadata dict of line 104
fetch_post_metadata(r) ==
    IF ~r.ok
    THEN [status |-> "False", title |-> <<>>, description |-> <<>>, ministers |-> <<>>]
    ELSE
      LET p == r.page[1] IN
      IF p.ogTitle = <<>> THEN Raised
      ELSE IF Strip(p.ogTitle[1]) = <<>> /\ p.h1 = <<>> THEN Raised
      ELSE IF p.ogDesc = <<>> THEN Raised
      ELSE IF Strip(p.ogDesc[1]) = <<>> /\ p.metaDesc = <<>> THEN Raised
      ELSE
        [status      |-> "ok",
         title       |-> IF Strip(p.ogTitle[1]) = <<>>
                         THEN Strip(p.h1[1]) ELSE Strip(p.ogTitle[1]),
         description |-> IF Strip(p.ogDesc[1]) = <<>>
                         THEN Strip(p.metaDesc[1]) ELSE Strip(p.ogDesc[1]),
         ministers   |-> [i \in 1..Len(p.ministers) |-> Strip(p.ministers[i])]]

\* what fetch_post_metadata can come to, over the responses of the service
FetchOutcomes == { fetch_post_metadata(r).status : r \in Responses }

\* scrape_url, lines 62-70: both variables must be set and non-empty
ScrapeConfigured(e) ==
    EnvTruthy(e.BROWSERLESS_API_TOKEN) /\ EnvTruthy(e.BROWSERLESS_URL)

\* the default of line 224 taken as True
IsLiveByDefault(e) == e.POST_TO_BLUESKY = Unset \/ EnvTruthy(e.POST_TO_BLUESKY)

\* line 224-228
IsLive(e) == EnvTruthy(e.POST_TO_BLUESKY)

\* ------------------------------------------------------------------ state
VARIABLES
    feed,         \* example.xml as decoded by feedparser: feed.entries
    file,         \* history.csv on disk
    env,          \* the environment of the running process
    pc,           \* "idle", "loop", "done", "aborted" or "crashed"
    run,          \* the number of invocations started so far
    exit_code,    \* -1 while running or killed, else the exit status
    history,      \* the in-memory list of dicts
    guids,        \* retrieve_published_guids(history), taken once (line 186)
    idx,          \* position of the loop in reversed(feed.entries[3:])
    event,        \* what the last step did
    parsed,       \* feed positions given to parse_entry in this run
    fetched,      \* feed positions given to fetch_post_metadata in this run
    sink,         \* the calls made on the atproto client in this run
    attempted,    \* feed positions given to send_post in this run
    sent,         \* feed positions whose send_post returned in this run
    printed,      \* feed positions printed by the dry run in this run
    failed,       \* feed positions whose send_post raised in this run
    failedPrev,   \* the same, of the previous run
    printedPrev,  \* what the previous run printed, if it ended with exit code 0
    fileAtStart,  \* history.csv as it was when this run started
    fileBefore,   \* history.csv as it was before the last step
    call          \* a function of the script applied on its own: its
                  \* arguments and, once it has returned, its result

vars == <<feed, file, env, pc, run, exit_code, history, guids, idx, event,
          parsed, fetched, sink, attempted, sent, printed, failed, failedPrev,
          printedPrev, fileAtStart, fileBefore, call>>

\* reversed(feed.entries[3:])
Pending == Reverse(SubSeq(feed, Skip + 1, Len(feed)))

\* the feed position of the entry the loop is at
Pos == Len(feed) + 1 - idx

Cur == Pending[idx]

AtEntry == pc = "loop" /\ idx <= Len(Pending)

\* before the first invocation: no history.csv, nothing run
Fresh ==
    /\ file = NoFile
    /\ env = [POST_TO_BLUESKY |-> Unset, BROWSERLESS_API_TOKEN |-> Unset,
              BROWSERLESS_URL |-> Unset]
    /\ pc = "idle"
    /\ run = 0
    /\ exit_code = -1
    /\ history = <<>>
    /\ guids = <<>>
    /\ idx = 1
    /\ event = "none"
    /\ parsed = {} /\ fetched = {} /\ sink = {} /\ attempted = {}
    /\ sent = {} /\ printed = {} /\ failed = {} /\ failedPrev = {}
    /\ printedPrev = {}
    /\ fileAtStart = NoFile
    /\ fileBefore = NoFile

NoCall == [fn |-> "none"]

Init == feed \in Feeds /\ Fresh /\ call = NoCall

\* lines 184-186: a new invocation of the script
StartRun ==
    /\ pc \in {"idle", "done", "aborted", "crashed"}
    /\ run < MaxRuns
    /\ run' = run + 1
    /\ env' \in Envs
    /\ history' = load_feed_history(file)
    /\ guids' = retrieve_published_guids(history')
    /\ idx' = 1
    /\ pc' = "loop"
    /\ exit_code' = -1
    /\ event' = "start"
    /\ parsed' = {} /\ fetched' = {} /\ sink' = {} /\ attempted' = {}
    /\ sent' = {} /\ printed' = {} /\ failed' = {}
    /\ failedPrev' = failed
    /\ printedPrev' = IF exit_code = 0 THEN printed ELSE {}
    /\ fileAtStart' = file
    /\ fileBefore' = file
    /\ UNCHANGED <<feed, file, call>>

\* what every step of the loop leaves alone or records
Frame == fileBefore' = file /\ UNCHANGED <<feed, env, run, guids, failedPrev, printedPrev, fileAtStart, call>>

Continue == pc' = "loop" /\ idx' = idx + 1 /\ exit_code' = exit_code

\* an uncaught exception or sys.exit(1): the interpreter exits with status 1
Abort == pc' = "aborted" /\ idx' = idx /\ exit_code' = 1

\* lines 194-195
SkipTooOld ==
    /\ AtEntry
    /\ TooOld(Cur)
    /\ event' = "too_old"
    /\ Continue /\ Frame
    /\ UNCHANGED <<file, history, parsed, fetched, sink, attempted, sent, printed, failed>>

\* lines 197-198
SkipPublished ==
    /\ AtEntry
    /\ ~TooOld(Cur)
    /\ AlreadyPublished(Cur, guids)
    /\ event' = "already_published"
    /\ Continue /\ Frame
    /\ UNCHANGED <<file, history, parsed, fetched, sink, attempted, sent, printed, failed>>

\* the entry reaches parse_entry
Parsed == AtEntry /\ ~TooOld(Cur) /\ ~AlreadyPublished(Cur, guids)

\* line 200
Accepted(e, h) == parse_entry(e) # <<>> /\ ~GuidInHistory(parse_entry(e)[1].guid, h)

\* lines 199-200 when the condition of line 200 is false
SkipNoPost ==
    /\ Parsed
    /\ ~Accepted(Cur, history)
    /\ parsed' = parsed \cup {Pos}
    /\ event' = "no_post"
    /\ Continue /\ Frame
    /\ UNCHANGED <<file, history, fetched, sink, attempted, sent, printed, failed>>

\* the entry reaches fetch_post_metadata (line 202)
Fetching == Parsed /\ Accepted(Cur, history)

ThePost == parse_entry(Cur)[1]

\* scrape_url, lines 63-70: sys.exit(1) at the first fetch of the run
ConfigMissing ==
    /\ Fetching
    /\ ~ScrapeConfigured(env)
    /\ parsed' = parsed \cup {Pos}
    /\ fetched' = fetched \cup {Pos}
    /\ event' = "config_missing"
    /\ Abort /\ Frame
    /\ UNCHANGED <<file, history, sink, attempted, sent, printed, failed>>

\* line 79 returns False, line 206 subscripts it: TypeError, uncaught
FetchNotOk ==
    /\ Fetching
    /\ ScrapeConfigured(env)
    /\ "False" \in FetchOutcomes
    /\ parsed' = parsed \cup {Pos}
    /\ fetched' = fetched \cup {Pos}
    /\ event' = "fetch_not_ok"
    /\ Abort /\ Frame
    /\ UNCHANGED <<file, history, sink, attempted, sent, printed, failed>>

\* lines 86-93 read an attribute of None: AttributeError, uncaught
ExtractionError ==
    /\ Fetching
    /\ ScrapeConfigured(env)
    /\ "raise" \in FetchOutcomes
    /\ parsed' = parsed \cup {Pos}
    /\ fetched' = fetched \cup {Pos}
    /\ event' = "extraction_error"
    /\ Abort /\ Frame
    /\ UNCHANGED <<file, history, sink, attempted, sent, printed, failed>>

\* the entry reaches line 228 with its metadata
Composed ==
    /\ Fetching
    /\ ScrapeConfigured(env)
    /\ "ok" \in FetchOutcomes
    /\ parsed' = parsed \cup {Pos}
    /\ fetched' = fetched \cup {Pos}

\* a dry run that prints and leaves the history alone
PrintPostOnly ==
    /\ Composed
    /\ ~IsLive(env)
    /\ printed' = printed \cup {Pos}
    /\ event' = "printed"
    /\ Continue /\ Frame
    /\ UNCHANGED <<file, history, sink, attempted, sent, failed>>

\* lines 255-262, the write of history.csv completing
PrintPost ==
    /\ Composed
    /\ ~IsLive(env)
    /\ printed' = printed \cup {Pos}
    /\ history' = HistoryAppend(history, ThePost)
    /\ file' = WrittenFile(history')
    /\ event' = "printed"
    /\ Continue /\ Frame
    /\ UNCHANGED <<sink, attempted, sent, failed>>

\* lines 255-262, open or a write raising: uncaught
PrintSaveFails ==
    /\ Composed
    /\ ~IsLive(env)
    /\ printed' = printed \cup {Pos}
    /\ history' = HistoryAppend(history, ThePost)
    /\ file' \in {file} \cup PartialFiles(history')
    /\ event' = "save_failed"
    /\ Abort /\ Frame
    /\ UNCHANGED <<sink, attempted, sent, failed>>

\* lines 229-239: login, open('beehive.png') or upload_blob raising, uncaught
LiveSetupFails ==
    /\ Composed
    /\ IsLive(env)
    /\ \E calls \in { {"login"}, {"login", "upload_blob"} } : sink' = sink \cup calls
    /\ event' = "setup_failed"
    /\ Abort /\ Frame
    /\ UNCHANGED <<file, history, attempted, sent, printed, failed>>

\* the entry reaches send_post (line 249)
Sending ==
    /\ Composed
    /\ IsLive(env)
    /\ sink' = sink \cup {"login", "upload_blob", "send_post"}
    /\ attempted' = attempted \cup {Pos}

\* the history saved before send_post is known to have returned
SendPostRaisesRecorded ==
    /\ Sending
    /\ failed' = failed \cup {Pos}
    /\ history' = HistoryAppend(history, ThePost)
    /\ file' = WrittenFile(history')
    /\ event' = "send_failed"
    /\ Continue /\ Frame
    /\ UNCHANGED <<sent, printed>>

\* lines 248-254, send_post raising
SendPostRaises ==
    /\ Sending
    /\ failed' = failed \cup {Pos}
    /\ event' = "send_failed"
    /\ Continue /\ Frame
    /\ UNCHANGED <<file, history, sent, printed>>

\* lines 248-251, send_post and the write of history.csv completing
SendPost ==
    /\ Sending
    /\ sent' = sent \cup {Pos}
    /\ history' = HistoryAppend(history, ThePost)
    /\ file' = WrittenFile(history')
    /\ event' = "sent"
    /\ Continue /\ Frame
    /\ UNCHANGED <<printed, failed>>

\* lines 248-254, send_post returning and save_feed_history raising inside
\* the try block: the handler of line 252 catches it
SendSaveFails ==
    /\ Sending
    /\ sent' = sent \cup {Pos}
    /\ history' = HistoryAppend(history, ThePost)
    /\ file' \in {file} \cup PartialFiles(history')
    /\ event' = "save_failed"
    /\ Continue /\ Frame
    /\ UNCHANGED <<printed, failed>>

\* the process is killed between open(.., "w") and the close of the file
CrashInSave ==
    /\ Composed
    /\ IF IsLive(env)
       THEN /\ sink' = sink \cup {"login", "upload_blob", "send_post"}
            /\ attempted' = attempted \cup {Pos}
            /\ sent' = sent \cup {Pos}
            /\ printed' = printed
       ELSE /\ printed' = printed \cup {Pos}
            /\ UNCHANGED <<sink, attempted, sent>>
    /\ history' = HistoryAppend(history, ThePost)
    /\ file' \in PartialFiles(history')
    /\ event' = "crash_in_save"
    /\ pc' = "crashed" /\ idx' = idx /\ exit_code' = exit_code
    /\ Frame
    /\ UNCHANGED failed

\* the loop of line 191 is exhausted: the script ends
Finish ==
    /\ pc = "loop"
    /\ idx > Len(Pending)
    /\ event' = "finish"
    /\ pc' = "done" /\ idx' = idx /\ exit_code' = 0
    /\ Frame
    /\ UNCHANGED <<file, history, parsed, fetched, sink, attempted, sent, printed, failed>>

Next ==
    \/ StartRun
    \/ SkipTooOld
    \/ SkipPublished
    \/ SkipNoPost
    \/ ConfigMissing
    \/ FetchNotOk
    \/ ExtractionError
    \/ PrintPost
    \/ PrintSaveFails
    \/ LiveSetupFails
    \/ SendPostRaises
    \/ SendPost
    \/ SendSaveFails
    \/ CrashInSave
    \/ Finish

Spec == Init /\ [][Next]_vars

\* ------------------------------------------- format_minister_text alone
Names == { <<"Alice">>, <<"Bob">>, <<"Cara", " ", "Lee">> }

NameLists == SeqsUpTo(Names, MaxNames)

MainIdle == feed = <<>> /\ Fresh

InitFormat ==
    /\ MainIdle
    /\ \E m \in NameLists : call = [fn |-> "format_minister_text", ministers |-> m]

CallFormat ==
    /\ call.fn = "format_minister_text"
    /\ call' = [fn |-> "returned", ministers |-> call.ministers,
                text |-> format_minister_text(call.ministers)]
    /\ UNCHANGED <<feed, file, env, pc, run, exit_code, history, guids, idx, event,
                   parsed, fetched, sink, attempted, sent, printed, failed,
                   failedPrev, printedPrev, fileAtStart, fileBefore>>

SpecFormat == InitFormat /\ [][CallFormat]_vars

\* --------------------------------------- the composition of a post alone
\* line 89 and line 94 assign a str: the value is never None
MetadataTitle(metadata) == <<metadata.title>>

MetadataDescription(metadata) == <<metadata.description>>

\* "joint " as soon as there is one minister
ComposeTextJointFromOne(post, metadata) ==
    <<"A new ">>
    \o (IF Len(metadata.ministers) >= 1 THEN <<"joint ">> ELSE <<>>)
    \o (IF post.type = "RELEASE" THEN <<"release">> ELSE <<>>)
    \o (IF post.type = "FEATURE" THEN <<"feature">> ELSE <<>>)
    \o (IF post.type = "SPEECH" THEN <<"speech">> ELSE <<>>)
    \o <<" is available">>
    \o (IF Len(metadata.ministers) # 0
        THEN format_minister_text(metadata.ministers) ELSE <<>>)
    \o <<".">>

\* lines 203-219: the text the TextBuilder holds
ComposeText(post, metadata) ==
    <<"A new ">>
    \o (IF Len(metadata.ministers) > 1 THEN <<"joint ">> ELSE <<>>)
    \o (IF post.type = "RELEASE" THEN <<"release">> ELSE <<>>)
    \o (IF post.type = "FEATURE" THEN <<"feature">> ELSE <<>>)
    \o (IF post.type = "SPEECH" THEN <<"speech">> ELSE <<>>)
    \o <<" is available">>
    \o (IF Len(metadata.ministers) # 0
        THEN format_minister_text(metadata.ministers) ELSE <<>>)
    \o <<".">>

\* line 221
EmbedTitle(post, metadata) ==
    IF MetadataTitle(metadata) # <<>> THEN MetadataTitle(metadata)[1] ELSE post.title

\* line 222
EmbedDescription(metadata) ==
    IF MetadataDescription(metadata) # <<>>
    THEN MetadataDescription(metadata)[1] ELSE <<"Read more">>

CategoryUrls == { <<"release", "a">>, <<"feature", "a">>, <<"speech", "a">> }

ComposeEntries ==
    [guid : {<<"124729">>}, link : CategoryUrls, published : {START_TIME},
     title : {FeedTitle}]

InitCompose ==
    /\ MainIdle
    /\ \E e \in ComposeEntries, r \in Responses :
          /\ fetch_post_metadata(r).status = "ok"
          /\ call = [fn |-> "compose", entry |-> e, response |-> r]

\* lines 199-222 for one entry and one response of the scrape service
CallCompose ==
    /\ call.fn = "compose"
    /\ LET post == parse_entry(call.entry)[1]
           metadata == fetch_post_metadata(call.response)
       IN  call' = [fn |-> "composed", entry |-> call.entry, post |-> post,
                    metadata |-> metadata,
                    text |-> ComposeText(post, metadata),
                    embed_title |-> EmbedTitle(post, metadata),
                    embed_description |-> EmbedDescription(metadata)]
    /\ UNCHANGED <<feed, file, env, pc, run, exit_code, history, guids, idx, event,
                   parsed, fetched, sink, attempted, sent, printed, failed,
                   failedPrev, printedPrev, fileAtStart, fileBefore>>

SpecCompose == InitCompose /\ [][CallCompose]_vars

\* ------------------------------------- history.csv character by character
\* A field is a sequence of characters; "COMMA", "QUOTE", "CR" and "LF" are
\* the characters the csv module and the text layer treat specially.
Special == {"COMMA", "QUOTE", "CR", "LF"}

NeedsQuotes(field) == \E i \in 1..Len(field) : field[i] \in Special

RECURSIVE DoubleQuotes(_)
DoubleQuotes(field) ==
    IF field = <<>> THEN <<>>
    ELSE (IF Head(field) = "QUOTE" THEN <<"QUOTE", "QUOTE">> ELSE <<Head(field)>>)
         \o DoubleQuotes(Tail(field))

\* csv.writer, QUOTE_MINIMAL
CsvField(field) ==
    IF NeedsQuotes(field)
    THEN <<"QUOTE">> \o DoubleQuotes(field) \o <<"QUOTE">>
    ELSE field

\* writer.writerow: the fields in the order of fieldnames, "\r\n" at the end
CsvRow(cells) ==
    Join(<<"COMMA">>, [i \in 1..Len(cells) |-> CsvField(cells[i])]) \o <<"CR", "LF">>

RECURSIVE Concat(_)
Concat(lines) == IF lines = <<>> THEN <<>> ELSE Head(lines) \o Concat(Tail(lines))

\* save_feed_history, lines 147-153, with newline="": the bytes as written
CsvText(h) ==
    CsvRow(FieldNames)
    \o Concat([i \in 1..Len(h) |-> CsvRow(<<h[i].guid, h[i].url>>)])

\* open("history.csv") of line 138 has no newline argument: "\r\n" and a
\* lone "\r" are read as "\n"
RECURSIVE UniversalNewlines(_)
UniversalNewlines(s) ==
    IF s = <<>> THEN <<>>
    ELSE IF Head(s) = "CR"
         THEN IF Len(s) >= 2 /\ s[2] = "LF"
              THEN <<"LF">> \o UniversalNewlines(Tail(Tail(s)))
              ELSE <<"LF">> \o UniversalNewlines(Tail(s))
         ELSE <<Head(s)>> \o UniversalNewlines(Tail(s))

\* csv.reader: q is "start" of a field, "plain", "quoted" or "quote" (a
\* quote met inside a quoted field); a blank line gives no row
RECURSIVE CsvParse(_, _, _, _, _, _)
CsvParse(s, i, q, field, row, rows) ==
    IF i > Len(s)
    THEN IF row = <<>> /\ field = <<>> /\ q = "start"
         THEN rows ELSE Append(rows, Append(row, field))
    ELSE
      LET c == s[i]
          endField == CsvParse(s, i + 1, "start", <<>>, Append(row, field), rows)
          endRow == CsvParse(s, i + 1, "start", <<>>, <<>>,
                             Append(rows, Append(row, field)))
      IN  IF q = "quoted"
          THEN IF c = "QUOTE"
               THEN CsvParse(s, i + 1, "quote", field, row, rows)
               ELSE CsvParse(s, i + 1, "quoted", Append(field, c), row, rows)
          ELSE IF c = "QUOTE" /\ q = "start"
               THEN CsvParse(s, i + 1, "quoted", field, row, rows)
          ELSE IF c = "QUOTE" /\ q = "quote"
               THEN CsvParse(s, i + 1, "quoted", Append(field, c), row, rows)
          ELSE IF c = "COMMA" THEN endField
          ELSE IF c \in {"CR", "LF"}
               THEN IF q = "start" /\ row = <<>>
                    THEN CsvParse(s, i + 1, "start", <<>>, <<>>, rows)
                    ELSE endRow
          ELSE CsvParse(s, i + 1, "plain", Append(field, c), row, rows)

\* load_feed_history on the text of the file
LoadText(text) == DictReader(CsvParse(UniversalNewlines(text), 1, "start", <<>>, <<>>, <<>>))

HistoryGuids ==
    { <<"a">>, <<"b", "COMMA", "b">>, <<"QUOTE", "c">>, <<"d", "CR", "d">> }

HistoryUrls == { <<>>, <<"u", "COMMA", "QUOTE">> }

HistoryPosts == [guid : HistoryGuids, url : HistoryUrls]

InitHistory ==
    /\ MainIdle
    /\ call = [fn |-> "history", exists |-> FALSE, text |-> <<>>, history |-> <<>>]

\* save_feed_history(history, post) for a post whose guid is new
CallSave ==
    /\ call.fn = "history"
    /\ Len(call.history) < MaxRecords
    /\ \E post \in HistoryPosts :
          /\ \A i \in 1..Len(call.history) : call.history[i].guid # post.guid
          /\ call' = [fn |-> "history", exists |-> TRUE,
                       text |-> CsvText(HistoryAppend(call.history, post)),
                       history |-> HistoryAppend(call.history, post)]
    /\ UNCHANGED <<feed, file, env, pc, run, exit_code, history, guids, idx, event,
                   parsed, fetched, sink, attempted, sent, printed, failed,
                   failedPrev, printedPrev, fileAtStart, fileBefore>>

\* load_feed_history() after the appends
CallLoad ==
    /\ call.fn = "history"
    /\ call' = [fn |-> "loaded", exists |-> call.exists, text |-> call.text,
                history |-> call.history,
                loaded |-> IF call.exists THEN LoadText(call.text) ELSE <<>>]
    /\ UNCHANGED <<feed, file, env, pc, run, exit_code, history, guids, idx, event,
                   parsed, fetched, sink, attempted, sent, printed, failed,
                   failedPrev, printedPrev, fileAtStart, fileBefore>>

NextHistory == CallSave \/ CallLoad

SpecHistory == InitHistory /\ [][NextHistory]_vars

\* ------------------------------------- two invocations at the same time
\* Both invocations run live with the scrape service configured and
\* answering; call.file is history.csv, call.procs the two processes.
Invocations == {1, 2}

RaceEntries ==
    [guid : Guids, link : {UrlRelease}, published : {START_TIME}, title : {FeedTitle}]

RaceFeeds == { h \o t : h \in Heads, t \in SeqsUpTo(RaceEntries, MaxTail) }

InitRace ==
    /\ feed \in RaceFeeds
    /\ Fresh
    /\ call = [fn |-> "race", file |-> NoFile, lastWriter |-> 0,
               procs |-> [p \in Invocations |->
                            [pc |-> "start", history |-> <<>>, guids |-> <<>>,
                             idx |-> 1, sent |-> {}]]]

MainUnchanged ==
    UNCHANGED <<feed, file, env, pc, run, exit_code, history, guids, idx, event,
                parsed, fetched, sink, attempted, sent, printed, failed,
                failedPrev, printedPrev, fileAtStart, fileBefore>>

Proc(p) == call.procs[p]

RaceAtEntry(p) == Proc(p).pc = "loop" /\ Proc(p).idx <= Len(Pending)

RaceCur(p) == Pending[Proc(p).idx]

RacePos(p) == Len(feed) + 1 - Proc(p).idx

RaceEligible(p) ==
    /\ RaceAtEntry(p)
    /\ ~TooOld(RaceCur(p))
    /\ ~AlreadyPublished(RaceCur(p), Proc(p).guids)
    /\ Accepted(RaceCur(p), Proc(p).history)

\* lines 184-186
RaceLoad(p) ==
    /\ call.fn = "race"
    /\ Proc(p).pc = "start"
    /\ call' = [call EXCEPT
          !.procs[p].pc = "loop",
          !.procs[p].history = load_feed_history(call.file),
          !.procs[p].guids = retrieve_published_guids(load_feed_history(call.file))]
    /\ MainUnchanged

\* lines 192-200: the entry is not processed
RaceSkip(p) ==
    /\ call.fn = "race"
    /\ RaceAtEntry(p)
    /\ ~RaceEligible(p)
    /\ call' = [call EXCEPT !.procs[p].idx = @ + 1]
    /\ MainUnchanged

\* lines 202-249: send_post returns
RaceSend(p) ==
    /\ call.fn = "race"
    /\ RaceEligible(p)
    /\ call' = [call EXCEPT !.procs[p].pc = "save",
                            !.procs[p].sent = @ \cup {RacePos(p)}]
    /\ MainUnchanged

\* lines 248-254: send_post raises
RaceSendRaises(p) ==
    /\ call.fn = "race"
    /\ RaceEligible(p)
    /\ call' = [call EXCEPT !.procs[p].idx = @ + 1]
    /\ MainUnchanged

\* the invocation reads history.csv again and adds its record to it
RaceSaveMerged(p) ==
    /\ call.fn = "race"
    /\ Proc(p).pc = "save"
    /\ LET h == HistoryAppend(load_feed_history(call.file), parse_entry(RaceCur(p))[1])
       IN  call' = [call EXCEPT !.procs[p].pc = "loop",
                                !.procs[p].idx = @ + 1,
                                !.procs[p].history = h,
                                !.file = WrittenFile(h),
                                !.lastWriter = p]
    /\ MainUnchanged

\* line 250: save_feed_history rewrites the file from the list in memory
RaceSave(p) ==
    /\ call.fn = "race"
    /\ Proc(p).pc = "save"
    /\ LET h == HistoryAppend(Proc(p).history, parse_entry(RaceCur(p))[1])
       IN  call' = [call EXCEPT !.procs[p].pc = "loop",
                                !.procs[p].idx = @ + 1,
                                !.procs[p].history = h,
                                !.file = WrittenFile(h),
                                !.lastWriter = p]
    /\ MainUnchanged

\* the loop of line 191 is exhausted
RaceFinish(p) ==
    /\ call.fn = "race"
    /\ Proc(p).pc = "loop"
    /\ Proc(p).idx > Len(Pending)
    /\ call' = [call EXCEPT !.procs[p].pc = "done"]
    /\ MainUnchanged

NextRace ==
    \E p \in Invocations :
        \/ RaceLoad(p)
        \/ RaceSkip(p)
        \/ RaceSend(p)
        \/ RaceSendRaises(p)
        \/ RaceSave(p)
        \/ RaceFinish(p)

SpecRace == InitRace /\ [][NextRace]_vars

\* ------------------------------------------ runs over feeds of many URLs
Segments == {"feature", "release", "speech", "a"}

\* the paths of one to three segments
PathUrls == UNION { [1..k -> Segments] : k \in 1..3 }

\* a feed whose last entry, the first one visited, has any of the paths
PathFeeds ==
    { h \o << [guid |-> <<"124729">>, link |-> UrlRelease,
               published |-> START_TIME, title |-> FeedTitle],
              [guid |-> <<"124731">>, link |-> u,
               published |-> t, title |-> FeedTitle] >> :
        h \in Heads, u \in PathUrls, t \in Times }

InitPaths == feed \in PathFeeds /\ Fresh /\ call = NoCall

SpecPaths == InitPaths /\ [][Next]_vars

\* ------------------------------------------------------------- claims
\* the guids of the rows of history.csv, read off the file
FileGuids(f) == { f.lines[k][1] : k \in 2..Len(f.lines) }

\* the rows of history.csv
FileRows(f) == { f.lines[k] : k \in 2..Len(f.lines) }

Recent(e) == e.published >= START_TIME

Classifiable(e) == \E k \in 1..(Len(e.link) - 1) : e.link[k] \in {"feature", "release", "speech"}

C2_Idempotent ==
    (pc # "idle" /\ \A i \in 1..Len(feed) : feed[i].guid \in FileGuids(fileAtStart)) =>
        /\ printed = {} /\ attempted = {} /\ sent = {} /\ sink = {}
        /\ file = fileAtStart

C2_Witness ==
    /\ pc = "done"
    /\ \A i \in 1..Len(feed) : feed[i].guid \in FileGuids(fileAtStart)
    /\ \E i \in (Skip + 1)..Len(feed) : Recent(feed[i]) /\ Classifiable(feed[i])
    /\ env.BROWSERLESS_API_TOKEN # Unset /\ env.BROWSERLESS_URL # Unset

\* C3: history.csv never holds two rows with the same guid.
C3_GuidAtMostOnce ==
    \A j, k \in 2..Len(file.lines) :
        j # k => file.lines[j][1] # file.lines[k][1]

\* C4: no entry whose guid is in the history loaded at the start of the
\* run is given to parse_entry or to fetch_post_metadata.
C4_FilterBeforeEnrichment ==
    \A i \in parsed \cup fetched : feed[i].guid \notin FileGuids(fileAtStart)

C4_Witness ==
    /\ pc = "done"
    /\ fetched # {}
    /\ \E i \in (Skip + 1)..Len(feed) :
          /\ feed[i].guid \in FileGuids(fileAtStart)
          /\ Recent(feed[i]) /\ Classifiable(feed[i])

\* C5: whenever the processing of an entry begins, history.csv holds the
\* row of every entry published (sent or printed) earlier in the run, and
\* a process killed later in the run leaves those rows in history.csv.
C5_CommittedPerEntry ==
    (AtEntry \/ pc = "crashed") =>
        \A i \in (sent \cup printed) \ (IF pc = "crashed" THEN {Pos} ELSE {}) :
            <<feed[i].guid, feed[i].link>> \in FileRows(file)

\* C6: after a process killed during save_feed_history, history.csv loads
\* and holds every record it held before the append started.
C6_CrashKeepsPreviousState ==
    event = "crash_in_save" =>
        \A k \in 1..Len(load_feed_history(fileBefore)) :
            InSeq(load_feed_history(fileBefore)[k], load_feed_history(file))

\* C7: save_feed_history raising stops the run, in dry-run and live mode.
C7_PersistenceFailureStopsRun ==
    event = "save_failed" => pc = "aborted"

\* C8: when fetch_post_metadata returns False the entry is neither
\* published nor recorded and the run continues with the next entry.
C8_FetchFailureSkipsEntry ==
    event = "fetch_not_ok" => (pc = "loop" /\ file = fileBefore)

\* C9: when the page lacks og:title and the fallback heading the entry is
\* skipped and not recorded, the run continues and the exit code is 0.
C9_ExtractionFailureSkipsEntry ==
    event = "extraction_error" =>
        (pc # "aborted" /\ exit_code # 1 /\ file = fileBefore)

\* C10: a run that prints (dry run) calls nothing on the sink, and login,
\* upload_blob and send_post are called only in a run whose
\* POST_TO_BLUESKY is set.
C10_DryRunIsDefault ==
    /\ printed # {} => (sink = {} /\ attempted = {})
    /\ (sink # {} \/ attempted # {} \/ sent # {}) => env.POST_TO_BLUESKY # Unset

C10_Witness ==
    /\ pc = "done"
    /\ env.POST_TO_BLUESKY = Unset
    /\ Cardinality(printed) >= 2

\* C11: a run without BROWSERLESS_API_TOKEN or BROWSERLESS_URL ends with a
\* non-zero exit code before any processing: it never completes normally,
\* classifies and publishes nothing and leaves history.csv as it was.
C11_MissingConfigIsFatal ==
    (pc # "idle" /\ (env.BROWSERLESS_API_TOKEN = Unset \/ env.BROWSERLESS_URL = Unset)) =>
        /\ pc # "done" /\ exit_code # 0
        /\ parsed = {}
        /\ printed = {} /\ sent = {}
        /\ file = fileAtStart

\* C17: no entry published before START_TIME is classified, fetched,
\* published or recorded, whatever the history; the cutoff of line 194
\* skips no entry published at or after START_TIME.
C17_StartTimeCutoff ==
    /\ \A i \in parsed \cup fetched \cup attempted \cup sent \cup printed :
          feed[i].published >= START_TIME
    /\ pc # "idle" =>
          \A g \in FileGuids(file) :
             \/ g \in FileGuids(fileAtStart)
             \/ \E i \in sent \cup printed :
                   feed[i].guid = g /\ feed[i].published >= START_TIME
    /\ event = "too_old" => feed[Pos + 1].published < START_TIME

C17_Witness ==
    /\ pc = "done"
    /\ \E i \in (Skip + 1)..Len(feed) :
          /\ feed[i].published < START_TIME
          /\ Classifiable(feed[i])
          /\ feed[i].guid \notin FileGuids(file)
    /\ \E j \in printed \cup sent : feed[j].published = START_TIME

\* C18: a run that completes with no failed publish has published and
\* recorded every feed entry that was not in history, is recent and has a
\* classifiable URL, whatever its position in the feed.
C18_EveryEligibleEntryPublished ==
    (pc = "done" /\ failed = {}) =>
        \A i \in 1..Len(feed) :
            (/\ feed[i].guid \notin FileGuids(fileAtStart)
             /\ Recent(feed[i])
             /\ Classifiable(feed[i]))
            => (i \in sent \cup printed /\ feed[i].guid \in FileGuids(file))

HasSegment(u, seg) == \E k \in 1..(Len(u) - 1) : u[k] = seg

\* C16: parse_entry gives SPEECH to a URL containing /speech/, otherwise
\* RELEASE to one containing /release/, otherwise FEATURE to one containing
\* /feature/, and no Post otherwise; an entry without a Post is not
\* fetched, published or recorded and the run goes on to the next entry.
C16_LastMatchWins ==
    /\ \A i \in 1..Len(feed) :
          LET u == feed[i].link
              p == parse_entry(feed[i])
          IN  IF HasSegment(u, "speech") THEN p # <<>> /\ p[1].type = "SPEECH"
              ELSE IF HasSegment(u, "release") THEN p # <<>> /\ p[1].type = "RELEASE"
              ELSE IF HasSegment(u, "feature") THEN p # <<>> /\ p[1].type = "FEATURE"
              ELSE p = <<>>
    /\ \A i \in fetched \cup attempted \cup sent \cup printed : Classifiable(feed[i])
    /\ event = "no_post" =>
          /\ ~Classifiable(feed[Pos + 1])
          /\ pc = "loop"
          /\ file = fileBefore
          /\ (Pos + 1) \notin fetched \cup attempted \cup sent \cup printed

C16_Witness ==
    /\ pc = "done"
    /\ \E i \in parsed \ fetched : feed[i].link = <<"a", "release">>
    /\ printed # {}

\* the names of a list, each followed by ", " except the last one
RECURSIVE CommaSeparated(_)
CommaSeparated(names) ==
    IF Len(names) = 1 THEN names[1]
    ELSE names[1] \o <<", ">> \o CommaSeparated(Tail(names))

\* C12: format_minister_text gives "" for no name, " from n1" for one,
\* " from n1 and n2" for two and, for three or more, " from " and all names
\* but the last separated by ", ", then " and " and the last name, with no
\* comma before "and"; the names keep their order and none is dropped.
C12_MinisterText ==
    call.fn = "returned" =>
        LET m == call.ministers
            n == Len(m)
        IN  /\ n = 0 => call.text = <<>>
            /\ n = 1 => call.text = <<" from", " ">> \o m[1]
            /\ n = 2 => call.text = <<" from", " ">> \o m[1] \o <<" and ">> \o m[2]
            /\ n >= 3 => call.text =
                  <<" from", " ">> \o CommaSeparated(SubSeq(m, 1, n - 1))
                      \o <<" and ">> \o m[n]

C12_Witness ==
    /\ call.fn = "returned"
    /\ call.ministers = << <<"Alice">>, <<"Bob">>, <<"Cara", " ", "Lee">>, <<"Bob">> >>
    /\ call.text = <<" from", " ", "Alice", ", ", "Bob", ", ", "Cara", " ", "Lee",
                     " and ", "Bob">>

CategoryWord(link) ==
    IF link[1] = "speech" THEN "speech"
    ELSE IF link[1] = "release" THEN "release" ELSE "feature"

C14_EmbedFallbacks ==
    call.fn = "composed" =>
        /\ call.embed_title =
              IF call.metadata.title # <<>> THEN call.metadata.title
              ELSE <<"feed-title">>
        /\ call.embed_description =
              IF call.metadata.description # <<>> THEN call.metadata.description
              ELSE <<"Read more">>

\* C15: from no history.csv, the records appended through save_feed_history
\* are exactly the records load_feed_history returns: the same guid and url
\* for each, none missing, none twice.
C15_HistoryRoundTrip ==
    call.fn = "loaded" => call.loaded = call.history

\* C20: nothing keeps two invocations apart. Each sends the entries whose
\* guid was not in the history it loaded itself, whatever the other has
\* written since, and a save leaves in history.csv the list of the writing
\* invocation alone, that is the guids it loaded at its start and those it
\* sent itself: both can send the same entry, and the rewrite of one can
\* drop a record the other wrote (C20_Witness).
C20_UnsynchronisedInvocations ==
    call.fn = "race" =>
        /\ \A p \in Invocations :
              call.lastWriter = p =>
                  /\ load_feed_history(call.file) = call.procs[p].history
                  /\ FileGuids(call.file) \subseteq
                        { call.procs[p].guids[k] : k \in 1..Len(call.procs[p].guids) }
                          \cup { feed[i].guid : i \in call.procs[p].sent }
        /\ \A p \in Invocations : \A i \in call.procs[p].sent :
              \A k \in 1..Len(call.procs[p].guids) :
                  call.procs[p].guids[k] # feed[i].guid

C20_Witness ==
    /\ call.fn = "race"
    /\ \A p \in Invocations : call.procs[p].pc = "done"
    /\ call.procs[1].sent \cap call.procs[2].sent # {}
    /\ \E i \in call.procs[1].sent :
          /\ i \notin call.procs[2].sent
          /\ feed[i].guid \notin FileGuids(call.file)

====
